---- MODULE Spec2Model ----
(***************************************************************************)
(* Screen-time tracker: the ScreenTimeProvider store (entries and goals    *)
(* kept in React state and mirrored to localStorage by effects), its       *)
(* aggregation queries, and the goal form of the GoalSetting component     *)
(* with its conflict validation, delete dialog and Undo toast.             *)
(***************************************************************************)
EXTENDS Integers, Sequences, FiniteSets, TLC

(***************************************************************************)
(* Bounds of the model.                                                    *)
(***************************************************************************)
\* number of identifiers crypto.randomUUID() hands out in one behaviour
MaxId == 3
\* number of clock ticks (UTC half days) in one behaviour
MaxNow == 2
\* number of "Goal deleted" toasts on screen at once
MaxToasts == 1
\* the most entries an earlier session left in localStorage
MaxStored == 6

(***************************************************************************)
(* Values.                                                                 *)
(***************************************************************************)
\* the JavaScript value undefined, for the string-typed optional fields
Undefined == "undefined"
\* the JavaScript value null of the string|null component states; ids are
\* modelled as the positive integers in the order randomUUID returns them
NoId == 0
\* the half days of one UTC calendar day
TicksPerDay == 2

\* new Date().toISOString().split("T")[0]: the UTC calendar day of an instant
UtcDate(t) == t \div TicksPerDay

Dates == 0..1
Apps == {"x", "y"}
Categories ==
    {"social media", "productivity", "entertainment", "gaming",
     "communication", "education", "other"}

EntryKeys == {"id", "date", "device", "app", "category", "duration", "notes"}
GoalKeys == {"id", "type", "target", "limit"}
\* the keys whose value can be undefined (notes?: string, target optional)
OptionalKeys == {"notes", "target"}

\* arguments of addEntry: Omit<TimeEntry, "id">
EntryInputs ==
    { [date |-> 0, device |-> "phone", app |-> "x", category |-> "social media",
       duration |-> 30, notes |-> ""],
      [date |-> 0, device |-> "laptop", app |-> "y", category |-> "gaming",
       duration |-> 45, notes |-> Undefined] }

\* arguments of addGoal: Omit<Goal, "id">
GoalInputs ==
    { [type |-> "total", target |-> "", limit |-> 120],
      [type |-> "app", target |-> "x", limit |-> 60] }

\* arguments of updateEntry: Partial<TimeEntry>, which has the key id
EntryUpdates == { [date |-> 1, duration |-> 199], [id |-> 1] }

\* arguments of updateGoal: Partial<Goal>, which has the key id
GoalUpdates == { [limit |-> 200], [id |-> 1] }

VARIABLES
    entries,        \* useState<TimeEntry[]> of the provider
    goals,          \* useState<Goal[]> of the provider
    lsEntries,      \* localStorage item screenTimeEntries: <<>> is null, <<s>> the string s
    lsGoals,        \* localStorage item screenTimeGoals
    effects,        \* the effects of the last commit still to run, in order
    pending,        \* state updates queued by the load effect, applied by the next render
    nextId,         \* the next identifier randomUUID returns
    now,            \* the clock
    boot            \* the collections in memory when the page was last reloaded

storeVars == <<entries, goals, lsEntries, lsGoals, effects, pending, nextId, now, boot>>

VARIABLES
    isEditing,          \* useState<string | null>: the id of the goal being edited
    isDialogOpen,       \* the goal form dialog
    formError,          \* useState<string | null>: the conflict message shown in the dialog
    isDeleteDialogOpen, \* the delete confirmation of GoalSetting
    goalToDelete,       \* useState<string | null>
    form,               \* the values of the goal form
    toasts              \* the "Goal deleted" toasts on screen, each holding its goalCopy

uiVars == <<isEditing, isDialogOpen, formError, isDeleteDialogOpen, goalToDelete,
            form, toasts>>

VARIABLES
    statsTab,       \* the Dashboard's activeTab is "stats": UsageStats and UsageChart are mounted
    tracker,        \* the values of the TimeTracker form
    chartType,      \* useState<"bar" | "pie"> of UsageChart
    chartData,      \* useState<any[]> of UsageChart
    maxValue        \* useState(60) of UsageChart

trackVars == <<statsTab, tracker, chartType, chartData, maxValue>>

vars == <<entries, goals, lsEntries, lsGoals, effects, pending, nextId, now, boot,
          isEditing, isDialogOpen, formError, isDeleteDialogOpen, goalToDelete,
          form, toasts, statsTab, tracker, chartType, chartData, maxValue>>

(***************************************************************************)
(* JSON.stringify and JSON.parse of an array of plain objects.             *)
(***************************************************************************)
\* JSON.stringify omits the properties whose value is undefined
StringifyObject(o) ==
    [k \in {j \in DOMAIN o : ~(j \in OptionalKeys /\ o[j] = Undefined)} |-> o[k]]

Stringify(arr) == [i \in 1..Len(arr) |-> StringifyObject(arr[i])]

\* reading a property the parsed object lacks gives undefined
ParseObject(s, keys) ==
    [k \in keys |-> IF k \in DOMAIN s THEN s[k] ELSE Undefined]

Parse(str, keys) == [i \in 1..Len(str) |-> ParseObject(str[i], keys)]

(***************************************************************************)
(* Array helpers of the store.                                             *)
(***************************************************************************)
\* { ...a, ...b }
Spread(a, b) ==
    [k \in DOMAIN a \cup DOMAIN b |-> IF k \in DOMAIN b THEN b[k] ELSE a[k]]

\* MapUpdate spreading the fields into every item
MapUpdateAll(arr, id, updatedFields) ==
    [i \in 1..Len(arr) |-> Spread(arr[i], updatedFields)]

\* prev.map((item) => (item.id === id ? { ...item, ...updatedFields } : item))
MapUpdate(arr, id, updatedFields) ==
    [i \in 1..Len(arr) |->
        IF arr[i].id = id THEN Spread(arr[i], updatedFields) ELSE arr[i]]

\* prev.filter((item) => item.id !== id)
RECURSIVE FilterOutId(_, _)
FilterOutId(arr, id) ==
    IF arr = <<>> THEN <<>>
    ELSE IF Head(arr).id # id
         THEN <<Head(arr)>> \o FilterOutId(Tail(arr), id)
         ELSE FilterOutId(Tail(arr), id)

(***************************************************************************)
(* Aggregation queries.                                                    *)
(***************************************************************************)
NoType == "none"

\* TodayFilter without the test of the date
TodayFilterAnyDate(entry, today, type, target) ==
    IF type = NoType THEN TRUE
    ELSE IF type = "app" THEN entry.app = target
    ELSE IF type = "category" THEN entry.category = target
    ELSE TRUE

\* TodayFilter comparing the app in the category branch
TodayFilterCategoryAsApp(entry, today, type, target) ==
    IF entry.date # today THEN FALSE
    ELSE IF type = NoType THEN TRUE
    ELSE IF type = "app" THEN entry.app = target
    ELSE IF type = "category" THEN entry.app = target
    ELSE TRUE

\* TodayFilter keeping every entry of today whatever the target
TodayFilterAnyTarget(entry, today, type, target) ==
    IF entry.date # today THEN FALSE ELSE TRUE

\* the filter callback of getTodayUsage
TodayFilter(entry, today, type, target) ==
    IF entry.date # today THEN FALSE
    ELSE IF type = NoType THEN TRUE
    ELSE IF type = "app" THEN entry.app = target
    ELSE IF type = "category" THEN entry.category = target
    ELSE TRUE

\* entries.filter(...).reduce((total, entry) => total + entry.duration, 0)
RECURSIVE FilterReduce(_, _, _, _, _)
FilterReduce(arr, today, type, target, total) ==
    IF arr = <<>> THEN total
    ELSE FilterReduce(Tail(arr), today, type, target,
            IF TodayFilter(Head(arr), today, type, target)
            THEN total + Head(arr).duration ELSE total)

getTodayUsage(type, target) ==
    FilterReduce(entries, UtcDate(now), type, target, 0)

\* FilterDate collecting the matches in reverse order
RECURSIVE FilterDateReversed(_, _)
FilterDateReversed(arr, date) ==
    IF arr = <<>> THEN <<>>
    ELSE IF Head(arr).date = date
         THEN FilterDateReversed(Tail(arr), date) \o <<Head(arr)>>
         ELSE FilterDateReversed(Tail(arr), date)

\* entries.filter((entry) => entry.date === date)
RECURSIVE FilterDate(_, _)
FilterDate(arr, date) ==
    IF arr = <<>> THEN <<>>
    ELSE IF Head(arr).date = date
         THEN <<Head(arr)>> \o FilterDate(Tail(arr), date)
         ELSE FilterDate(Tail(arr), date)

getUsageByDate(date) == FilterDate(entries, date)

(***************************************************************************)
(* UsageStats: the breakdown of one date by category, app or device.       *)
(***************************************************************************)
\* useState<"category" | "app" | "device">
Views == {"category", "app", "device"}

\* view === "category" ? entry.category : view === "app" ? entry.app : entry.device
KeyOf(entry, view) ==
    IF view = "category" THEN entry.category
    ELSE IF view = "app" THEN entry.app
    ELSE entry.device

\* the Map as the sequence of its pairs in insertion order:
\* grouped.has(key) ? grouped.set(key, grouped.get(key) + duration)
\*                  : grouped.set(key, duration)
MapSet(grouped, key, duration) ==
    IF \E i \in 1..Len(grouped) : grouped[i].name = key
    THEN [i \in 1..Len(grouped) |->
            IF grouped[i].name = key
            THEN [name |-> key, duration |-> grouped[i].duration + duration]
            ELSE grouped[i]]
    ELSE Append(grouped, [name |-> key, duration |-> duration])

\* filteredEntries.forEach((entry) => ...)
RECURSIVE GroupEach(_, _, _)
GroupEach(arr, view, grouped) ==
    IF arr = <<>> THEN grouped
    ELSE GroupEach(Tail(arr), view,
                   MapSet(grouped, KeyOf(Head(arr), view), Head(arr).duration))

\* InsertSorted putting the row before the rows that are not smaller
InsertSortedAscending(sorted, row) ==
    LET k == Cardinality({i \in 1..Len(sorted) : sorted[i].duration < row.duration})
    IN SubSeq(sorted, 1, k) \o <<row>> \o SubSeq(sorted, k + 1, Len(sorted))

\* the place (a, b) => b.duration - a.duration gives a row among the rows
\* sorted so far: behind every row that is not smaller (the sort is stable)
InsertSorted(sorted, row) ==
    LET k == Cardinality({i \in 1..Len(sorted) : sorted[i].duration >= row.duration})
    IN SubSeq(sorted, 1, k) \o <<row>> \o SubSeq(sorted, k + 1, Len(sorted))

\* .sort((a, b) => b.duration - a.duration)
RECURSIVE SortDescending(_, _)
SortDescending(rows, sorted) ==
    IF rows = <<>> THEN sorted
    ELSE SortDescending(Tail(rows), InsertSorted(sorted, Head(rows)))

\* arr.reduce((total, entry) => total + entry.duration, 0)
RECURSIVE ReduceDuration(_, _)
ReduceDuration(arr, total) ==
    IF arr = <<>> THEN total
    ELSE ReduceDuration(Tail(arr), total + Head(arr).duration)

\* entries.filter((entry) => entry.date === selectedDate)
filteredEntries(selectedDate) == FilterDate(entries, selectedDate)

totalMinutes(selectedDate) == ReduceDuration(filteredEntries(selectedDate), 0)

getGroupedData(selectedDate, view) ==
    SortDescending(GroupEach(filteredEntries(selectedDate), view, <<>>), <<>>)

(***************************************************************************)
(* The provider: mount, effects, reload.                                   *)
(***************************************************************************)
\* the effects declared with the two save effects before the load effect
MountEffectsSaveFirst == <<"saveEntries", "saveGoals", "load">>

\* the three useEffect calls of the provider, in declaration order
MountEffects == <<"load", "saveEntries", "saveGoals">>

NoPending == [entries |-> <<>>, goals |-> <<>>]
NoBoot == [active |-> FALSE, entries |-> <<>>, goals |-> <<>>]

\* the numbers of the TimeTracker form and of the entries it creates are
\* held as a count of 1/Unit: z.coerce.number() gives fractions as well
Unit == 2

\* the TimeTracker form's defaultValues
TrackerDefault ==
    [app |-> "", category |-> "social media", device |-> "phone",
     hours |-> 0, minutes |-> 15 * Unit, notes |-> ""]

\* the goal form's defaultValues
DefaultForm == [type |-> "total", target |-> "", limit |-> 120]
NoError == "null"

\* every effect of the last commit has run and no state update is queued
Settled == effects = <<>> /\ pending = NoPending

\* the state of the GoalSetting component after its first render
UiInit ==
    /\ isEditing = NoId
    /\ isDialogOpen = FALSE
    /\ formError = NoError
    /\ isDeleteDialogOpen = FALSE
    /\ goalToDelete = NoId
    /\ form = DefaultForm
    /\ toasts = {}

\* the Dashboard on its "track" tab after the first render: the TimeTracker
\* form holds its defaultValues; the components of the "stats" tab are not
\* mounted and their state is written as the state they mount with
TrackInit ==
    /\ statsTab = FALSE
    /\ tracker = TrackerDefault
    /\ chartType = "bar"
    /\ chartData = <<>>
    /\ maxValue = 60 * Unit

Init ==
    /\ entries = <<>>
    /\ goals = <<>>
    /\ lsEntries = <<>>
    /\ lsGoals = <<>>
    /\ effects = MountEffects
    /\ pending = NoPending
    /\ nextId = 1
    /\ now = 0
    /\ boot = NoBoot
    /\ UiInit
    /\ TrackInit

\* the load effect: getItem of both keys, setEntries/setGoals of what parses
LoadEffect ==
    /\ effects # <<>> /\ Head(effects) = "load"
    /\ pending' = [entries |-> IF lsEntries # <<>>
                               THEN <<Parse(lsEntries[1], EntryKeys)>> ELSE <<>>,
                   goals |-> IF lsGoals # <<>>
                             THEN <<Parse(lsGoals[1], GoalKeys)>> ELSE <<>>]
    /\ effects' = Tail(effects)
    /\ UNCHANGED <<entries, goals, lsEntries, lsGoals, nextId, now, boot>>
    /\ UNCHANGED uiVars /\ UNCHANGED trackVars

\* useEffect(() => localStorage.setItem("screenTimeEntries", ...), [entries])
SaveEntriesEffect ==
    /\ effects # <<>> /\ Head(effects) = "saveEntries"
    /\ lsEntries' = <<Stringify(entries)>>
    /\ effects' = Tail(effects)
    /\ UNCHANGED <<entries, goals, lsGoals, pending, nextId, now, boot>>
    /\ UNCHANGED uiVars /\ UNCHANGED trackVars

\* the goals effect writing under the key of the entries
SaveGoalsEffectWrongKey ==
    /\ effects # <<>> /\ Head(effects) = "saveGoals"
    /\ lsEntries' = <<Stringify(goals)>>
    /\ effects' = Tail(effects)
    /\ UNCHANGED <<entries, goals, lsGoals, pending, nextId, now, boot>>
    /\ UNCHANGED uiVars /\ UNCHANGED trackVars

\* useEffect(() => localStorage.setItem("screenTimeGoals", ...), [goals])
SaveGoalsEffect ==
    /\ effects # <<>> /\ Head(effects) = "saveGoals"
    /\ lsGoals' = <<Stringify(goals)>>
    /\ effects' = Tail(effects)
    /\ UNCHANGED <<entries, goals, lsEntries, pending, nextId, now, boot>>
    /\ UNCHANGED uiVars /\ UNCHANGED trackVars

\* the render of the updates the load effect queued; an effect runs again
\* when its dependency is a new array
Rerender ==
    /\ effects = <<>> /\ pending # NoPending
    /\ entries' = IF pending.entries # <<>> THEN pending.entries[1] ELSE entries
    /\ goals' = IF pending.goals # <<>> THEN pending.goals[1] ELSE goals
    /\ effects' = (IF pending.entries # <<>> THEN <<"saveEntries">> ELSE <<>>)
                   \o (IF pending.goals # <<>> THEN <<"saveGoals">> ELSE <<>>)
    /\ pending' = NoPending
    /\ UNCHANGED <<lsEntries, lsGoals, nextId, now, boot>>
    /\ UNCHANGED uiVars /\ UNCHANGED trackVars

\* the page is reloaded: every component state starts over, localStorage stays
Reload ==
    /\ Settled
    /\ entries' = <<>>
    /\ goals' = <<>>
    /\ effects' = MountEffects
    /\ pending' = NoPending
    /\ boot' = [active |-> TRUE, entries |-> entries, goals |-> goals]
    /\ isEditing' = NoId
    /\ isDialogOpen' = FALSE
    /\ formError' = NoError
    /\ isDeleteDialogOpen' = FALSE
    /\ goalToDelete' = NoId
    /\ form' = DefaultForm
    /\ toasts' = {}
    /\ statsTab' = FALSE
    /\ tracker' = TrackerDefault
    /\ chartType' = "bar"
    /\ chartData' = <<>>
    /\ maxValue' = 60 * Unit
    /\ UNCHANGED <<lsEntries, lsGoals, nextId, now>>

Tick ==
    /\ Settled
    /\ now < MaxNow
    /\ now' = now + 1
    /\ UNCHANGED <<entries, goals, lsEntries, lsGoals, effects, pending, nextId, boot>>
    /\ UNCHANGED uiVars /\ UNCHANGED trackVars

(***************************************************************************)
(* The store operations.  Each sets the state and so schedules the save    *)
(* effect of the collection it set.                                        *)
(***************************************************************************)
\* crypto.randomUUID()
randomUUID == nextId

addEntry(entry) ==
    /\ nextId <= MaxId
    /\ entries' = Append(entries, Spread(entry, [id |-> randomUUID]))
    /\ nextId' = nextId + 1
    /\ effects' = <<"saveEntries">>
    /\ boot' = NoBoot
    /\ UNCHANGED <<goals, lsEntries, lsGoals, pending, now>>

updateEntry(id, updatedFields) ==
    /\ entries' = MapUpdate(entries, id, updatedFields)
    /\ effects' = <<"saveEntries">>
    /\ boot' = NoBoot
    /\ UNCHANGED <<goals, lsEntries, lsGoals, pending, nextId, now>>

deleteEntry(id) ==
    /\ entries' = FilterOutId(entries, id)
    /\ effects' = <<"saveEntries">>
    /\ boot' = NoBoot
    /\ UNCHANGED <<goals, lsEntries, lsGoals, pending, nextId, now>>

addGoal(goal) ==
    /\ nextId <= MaxId
    /\ goals' = Append(goals, Spread(goal, [id |-> randomUUID]))
    /\ nextId' = nextId + 1
    /\ effects' = <<"saveGoals">>
    /\ boot' = NoBoot
    /\ UNCHANGED <<entries, lsEntries, lsGoals, pending, now>>

updateGoal(id, updatedFields) ==
    /\ goals' = MapUpdate(goals, id, updatedFields)
    /\ effects' = <<"saveGoals">>
    /\ boot' = NoBoot
    /\ UNCHANGED <<entries, lsEntries, lsGoals, pending, nextId, now>>

deleteGoal(id) ==
    /\ goals' = FilterOutId(goals, id)
    /\ effects' = <<"saveGoals">>
    /\ boot' = NoBoot
    /\ UNCHANGED <<entries, lsEntries, lsGoals, pending, nextId, now>>

\* the identifiers handed out so far
Issued == 1..(nextId - 1)

\* a consumer of the context calls a store operation
CallAddEntry == Settled /\ UNCHANGED uiVars /\ UNCHANGED trackVars /\ \E e \in EntryInputs : addEntry(e)

CallUpdateEntry ==
    /\ Settled /\ UNCHANGED uiVars /\ UNCHANGED trackVars
    /\ \E id \in Issued : \E f \in EntryUpdates : updateEntry(id, f)

CallDeleteEntry == Settled /\ UNCHANGED uiVars /\ UNCHANGED trackVars /\ \E id \in Issued : deleteEntry(id)

CallAddGoal == Settled /\ UNCHANGED uiVars /\ UNCHANGED trackVars /\ \E g \in GoalInputs : addGoal(g)

CallUpdateGoal ==
    /\ Settled /\ UNCHANGED uiVars /\ UNCHANGED trackVars
    /\ \E id \in Issued : \E f \in GoalUpdates : updateGoal(id, f)

CallDeleteGoal == Settled /\ UNCHANGED uiVars /\ UNCHANGED trackVars /\ \E id \in Issued : deleteGoal(id)

(***************************************************************************)
(* GoalSetting: the goal form, its validation, the delete dialog, Undo.    *)
(***************************************************************************)
GoalTypes == {"app", "category", "total"}
\* what the user picks in the category select or types as the app name
TargetInputs == {"gaming"}
\* what the user can put into the limit field
LimitInputs == {0}

\* formSchema with min(0) for the limit
FormValidMinZero(values) == values.type \in GoalTypes /\ values.limit >= 0

\* formSchema: limit: z.coerce.number().min(1), target optional, type of the enum
FormValid(values) == values.type \in GoalTypes /\ values.limit >= 1

\* ConflictsWith comparing the target for "total" goals as well
ConflictsWithTotalByTarget(goal, type, target, excludeId) ==
    IF excludeId # NoId /\ goal.id = excludeId THEN FALSE
    ELSE goal.type = type /\ goal.target = target

\* ConflictsWith without the skip of the goal being edited
ConflictsWithSelf(goal, type, target, excludeId) ==
    IF type = "total" /\ goal.type = "total" THEN TRUE
    ELSE goal.type = type /\ goal.target = target

\* the callback of goals.find in hasConflict
ConflictsWith(goal, type, target, excludeId) ==
    IF excludeId # NoId /\ goal.id = excludeId THEN FALSE
    ELSE IF type = "total" /\ goal.type = "total" THEN TRUE
    ELSE IF type = "category" /\ goal.type = "category" /\ goal.target = target THEN TRUE
    ELSE IF type = "app" /\ goal.type = "app" /\ goal.target = target THEN TRUE
    ELSE FALSE

\* goals.find(...): <<g>> for the first goal g the callback accepts, <<>> for undefined
RECURSIVE Find(_, _, _, _)
Find(arr, type, target, excludeId) ==
    IF arr = <<>> THEN <<>>
    ELSE IF ConflictsWith(Head(arr), type, target, excludeId) THEN <<Head(arr)>>
    ELSE Find(Tail(arr), type, target, excludeId)

hasConflict(type, target, limit, excludeId) == Find(goals, type, target, excludeId)

\* no modal dialog covers the page
NoModal == ~isDialogOpen /\ ~isDeleteDialogOpen

\* the "Add Goal" trigger: onOpenChange(true)
OpenAddGoal ==
    /\ Settled /\ NoModal
    /\ isDialogOpen' = TRUE
    /\ UNCHANGED <<isEditing, formError, isDeleteDialogOpen, goalToDelete,
                   form, toasts>>
    /\ UNCHANGED storeVars
    /\ UNCHANGED trackVars

\* the dialog is dismissed: onOpenChange(false)
CloseDialog ==
    /\ Settled /\ isDialogOpen
    /\ isDialogOpen' = FALSE
    /\ formError' = NoError
    /\ form' = IF isEditing = NoId THEN DefaultForm ELSE form
    /\ UNCHANGED <<isEditing, isDeleteDialogOpen, goalToDelete, toasts>>
    /\ UNCHANGED storeVars
    /\ UNCHANGED trackVars

\* a field of the form changes: field.onChange, then resetFormError
ChangeType(t) ==
    /\ Settled /\ isDialogOpen
    /\ form' = [form EXCEPT !.type = t]
    /\ formError' = NoError
    /\ UNCHANGED <<isEditing, isDialogOpen, isDeleteDialogOpen, goalToDelete,
                   toasts>>
    /\ UNCHANGED storeVars
    /\ UNCHANGED trackVars

\* the target field is rendered only while the type is not "total"; it is
\* the category select for type "category" and a text input otherwise
ChangeTarget(s) ==
    /\ Settled /\ isDialogOpen
    /\ form.type # "total"
    /\ form.type = "category" => s \in Categories
    /\ form' = [form EXCEPT !.target = s]
    /\ formError' = NoError
    /\ UNCHANGED <<isEditing, isDialogOpen, isDeleteDialogOpen, goalToDelete,
                   toasts>>
    /\ UNCHANGED storeVars
    /\ UNCHANGED trackVars

ChangeLimit(n) ==
    /\ Settled /\ isDialogOpen
    /\ form' = [form EXCEPT !.limit = n]
    /\ formError' = NoError
    /\ UNCHANGED <<isEditing, isDialogOpen, isDeleteDialogOpen, goalToDelete,
                   toasts>>
    /\ UNCHANGED storeVars
    /\ UNCHANGED trackVars

\* the message onSubmit builds for a conflict
ErrorMessage(values) ==
    IF values.type = "total" THEN "total goal exists"
    ELSE IF values.type = "category" THEN "category goal exists"
    ELSE "app goal exists"

\* onSubmit leaving the edit mode when it finds a conflict
onSubmitConflictEndsEdit(values) ==
    IF hasConflict(values.type, values.target, values.limit, isEditing) # <<>>
    THEN /\ formError' = ErrorMessage(values)
         /\ isEditing' = NoId
         /\ UNCHANGED <<isDialogOpen, isDeleteDialogOpen, goalToDelete,
                        form, toasts>>
         /\ UNCHANGED storeVars
    ELSE /\ IF isEditing # NoId
            THEN updateGoal(isEditing, values)
            ELSE addGoal(values)
         /\ isEditing' = NoId
         /\ isDialogOpen' = FALSE
         /\ formError' = NoError
         /\ form' = DefaultForm
         /\ UNCHANGED <<isDeleteDialogOpen, goalToDelete, toasts>>

\* form.handleSubmit(onSubmit): onSubmit runs on the values the schema accepts
onSubmit(values) ==
    IF hasConflict(values.type, values.target, values.limit, isEditing) # <<>>
    THEN /\ formError' = ErrorMessage(values)
         /\ UNCHANGED <<isEditing, isDialogOpen, isDeleteDialogOpen, goalToDelete,
                        form, toasts>>
         /\ UNCHANGED storeVars
    ELSE /\ IF isEditing # NoId
            THEN updateGoal(isEditing, values)
            ELSE addGoal(values)
         /\ isEditing' = NoId
         /\ isDialogOpen' = FALSE
         /\ formError' = NoError
         /\ form' = DefaultForm
         /\ UNCHANGED <<isDeleteDialogOpen, goalToDelete, toasts>>

Submit ==
    /\ Settled /\ isDialogOpen
    /\ FormValid(form)
    /\ onSubmit(form)
    /\ UNCHANGED trackVars

\* goals.find((g) => g.id === id): <<g>> for the first such goal, <<>> for undefined
RECURSIVE FindById(_, _)
FindById(arr, id) ==
    IF arr = <<>> THEN <<>>
    ELSE IF Head(arr).id = id THEN <<Head(arr)>>
    ELSE FindById(Tail(arr), id)

handleEdit(id) ==
    /\ Settled /\ NoModal
    /\ FindById(goals, id) # <<>>
    /\ LET goal == FindById(goals, id)[1]
       IN form' = [type |-> goal.type, target |-> goal.target, limit |-> goal.limit]
    /\ isEditing' = id
    /\ formError' = NoError
    /\ isDialogOpen' = TRUE
    /\ UNCHANGED <<isDeleteDialogOpen, goalToDelete, toasts>>
    /\ UNCHANGED storeVars
    /\ UNCHANGED trackVars

\* deletedGoalRef.current where confirmDelete reads it.  handleDeleteClick
\* stores the goal it found and opens the confirmation; until that is
\* answered no handler that changes a goal can run, so the object stored is
\* the goal goals.find gives for goalToDelete.  The reference left behind
\* after the answer is never read again before handleDeleteClick replaces it.
deletedGoalRef == FindById(goals, goalToDelete)

handleDeleteClick(id) ==
    /\ Settled /\ NoModal
    /\ FindById(goals, id) # <<>>
    /\ goalToDelete' = id
    /\ isDeleteDialogOpen' = TRUE
    /\ UNCHANGED <<isEditing, isDialogOpen, formError, form, toasts>>
    /\ UNCHANGED storeVars
    /\ UNCHANGED trackVars

\* AlertDialogCancel: setGoalToDelete(null), and the dialog closes
CancelDelete ==
    /\ Settled /\ isDeleteDialogOpen
    /\ goalToDelete' = NoId
    /\ isDeleteDialogOpen' = FALSE
    /\ UNCHANGED <<isEditing, isDialogOpen, formError, form, toasts>>
    /\ UNCHANGED storeVars
    /\ UNCHANGED trackVars

\* AlertDialogAction: confirmDelete
confirmDelete ==
    /\ Settled /\ isDeleteDialogOpen
    /\ IF goalToDelete # NoId /\ deletedGoalRef # <<>>
       THEN /\ Cardinality(toasts) < MaxToasts
            /\ deleteGoal(goalToDelete)
            /\ toasts' = toasts \cup {deletedGoalRef[1]}
            /\ goalToDelete' = NoId
       ELSE /\ UNCHANGED <<goalToDelete, toasts>>
            /\ UNCHANGED storeVars
    /\ isDeleteDialogOpen' = FALSE
    /\ UNCHANGED <<isEditing, isDialogOpen, formError, form>>
    /\ UNCHANGED trackVars

\* Undo putting the copy back as it is, under the id it had
UndoSameId(goalCopy) ==
    /\ Settled /\ NoModal
    /\ goalCopy \in toasts
    /\ goals' = Append(goals, goalCopy)
    /\ effects' = <<"saveGoals">>
    /\ boot' = NoBoot
    /\ toasts' = toasts \ {goalCopy}
    /\ UNCHANGED <<entries, lsEntries, lsGoals, pending, nextId, now>>
    /\ UNCHANGED <<isEditing, isDialogOpen, formError, isDeleteDialogOpen,
                   goalToDelete, form>>
    /\ UNCHANGED trackVars

\* the toast's action "Undo": the goal is added back, the toast goes away
Undo(goalCopy) ==
    /\ Settled /\ NoModal
    /\ goalCopy \in toasts
    /\ addGoal([type |-> goalCopy.type, target |-> goalCopy.target,
                limit |-> goalCopy.limit])
    /\ toasts' = toasts \ {goalCopy}
    /\ UNCHANGED <<isEditing, isDialogOpen, formError, isDeleteDialogOpen,
                   goalToDelete, form>>
    /\ UNCHANGED trackVars

\* the toast's duration: 5000 ms have passed
ToastExpires(goalCopy) ==
    /\ goalCopy \in toasts
    /\ toasts' = toasts \ {goalCopy}
    /\ UNCHANGED <<isEditing, isDialogOpen, formError, isDeleteDialogOpen,
                   goalToDelete, form>>
    /\ UNCHANGED storeVars
    /\ UNCHANGED trackVars

(***************************************************************************)
(* TimeTracker: the form of the "track" tab that logs an entry.            *)
(***************************************************************************)
\* what the user types as the app name
AppInputs == {"x"}
\* what the user types into the hours field: 1 and 25
HoursInputs == {1 * Unit, 25 * Unit}
\* what the user types into the minutes field: 0, 0.5 and 60
MinutesInputs == {0, 1, 60 * Unit}

\* formSchema of the TimeTracker: app, category and device not empty,
\* hours: z.coerce.number().min(0).max(24), minutes: ...min(0).max(59)
TrackerValid(values) ==
    /\ values.app # "" /\ values.category # "" /\ values.device # ""
    /\ values.hours >= 0 /\ values.hours <= 24 * Unit
    /\ values.minutes >= 0 /\ values.minutes <= 59 * Unit

\* a field of the TimeTracker form changes
ChangeApp(a) ==
    /\ Settled /\ ~statsTab
    /\ tracker' = [tracker EXCEPT !.app = a]
    /\ UNCHANGED <<statsTab, chartType, chartData, maxValue>>
    /\ UNCHANGED storeVars
    /\ UNCHANGED uiVars

ChangeHours(h) ==
    /\ Settled /\ ~statsTab
    /\ tracker' = [tracker EXCEPT !.hours = h]
    /\ UNCHANGED <<statsTab, chartType, chartData, maxValue>>
    /\ UNCHANGED storeVars
    /\ UNCHANGED uiVars

ChangeMinutes(m) ==
    /\ Settled /\ ~statsTab
    /\ tracker' = [tracker EXCEPT !.minutes = m]
    /\ UNCHANGED <<statsTab, chartType, chartData, maxValue>>
    /\ UNCHANGED storeVars
    /\ UNCHANGED uiVars

\* onSubmit of the TimeTracker: the entry is added under today's UTC date and
\* the form is reset, keeping the category and the device
trackerOnSubmit(values) ==
    \* duration: totalMinutes = values.hours * 60 + values.minutes
    /\ addEntry([date |-> UtcDate(now), app |-> values.app,
                 category |-> values.category, device |-> values.device,
                 duration |-> values.hours * 60 + values.minutes,
                 notes |-> values.notes])
    /\ tracker' = [app |-> "", category |-> values.category,
                   device |-> values.device, hours |-> 0,
                   minutes |-> 15 * Unit, notes |-> ""]

\* form.handleSubmit(onSubmit): onSubmit runs on the values the schema accepts
SubmitEntry ==
    /\ Settled /\ ~statsTab
    /\ TrackerValid(tracker)
    /\ trackerOnSubmit(tracker)
    /\ UNCHANGED <<statsTab, chartType, chartData, maxValue>>
    /\ UNCHANGED uiVars

(***************************************************************************)
(* The "stats" tab and UsageChart: the week's bar chart and pie chart.     *)
(***************************************************************************)
\* the local time zone is half a day ahead of UTC
TzOffset == 1

\* format(date, "yyyy-MM-dd"): the calendar day of an instant in local time
LocalDate(t) == (t + TzOffset) \div TicksPerDay

\* startOfWeek(today, { weekStartsOn: 1 }) and the six days after it; day 0
\* is a Sunday, so that day 1 opens a week
WeekDates(today) == [i \in 1..7 |-> today - ((today + 6) % 7) + (i - 1)]

\* format(date, "EEE")
WeekdayLabels == <<"Mon", "Tue", "Wed", "Thu", "Fri", "Sat", "Sun">>

\* Math.max(...values, 60)
MaxOf(values) == CHOOSE m \in values : \A v \in values : m >= v

\* data.reduce((sum, item) => sum + item.value, 0)
RECURSIVE ReduceValue(_, _)
ReduceValue(data, sum) ==
    IF data = <<>> THEN sum
    ELSE ReduceValue(Tail(data), sum + Head(data).value)

\* BarData with every entry of the store in every bucket
BarDataAnyDate(today) ==
    [i \in 1..7 |->
        [label |-> WeekdayLabels[i], value |-> ReduceDuration(entries, 0)]]

\* the bar data of generateChartData: one item per day of the week
BarData(today) ==
    [i \in 1..7 |->
        [label |-> WeekdayLabels[i],
         value |-> ReduceDuration(FilterDate(entries, WeekDates(today)[i]), 0)]]

\* the pie data of generateChartData: the week's entries grouped by category,
\* sorted by (a, b) => b.value - a.value
PieData(today) ==
    LET formattedDates == {WeekDates(today)[i] : i \in 1..7}
        weekEntries == SelectSeq(entries, LAMBDA e : e.date \in formattedDates)
        rows == SortDescending(GroupEach(weekEntries, "category", <<>>), <<>>)
    IN [i \in 1..Len(rows) |-> [label |-> rows[i].name, value |-> rows[i].duration]]

\* Math.round((value / total) * 100), for value >= 0 and total > 0
RoundPercent(value, total) == (200 * value + total) \div (2 * total)

\* getPercentage of UsageChart
getPercentage(value) == IF maxValue > 0 THEN RoundPercent(value, maxValue) ELSE 0

\* getProgressPercentage of GoalSetting
getProgressPercentage(goal) ==
    LET usage == IF goal.type = "total" THEN getTodayUsage(NoType, Undefined)
                 ELSE IF goal.type = "app" THEN getTodayUsage("app", goal.target)
                 ELSE IF goal.type = "category"
                      THEN getTodayUsage("category", goal.target)
                 ELSE 0
        percent == RoundPercent(usage, goal.limit)
    IN IF percent < 100 THEN percent ELSE 100

\* what checkGoals of the Dashboard hands to setAnyGoalReached
checkGoals ==
    \E i \in 1..Len(goals) :
        LET goal == goals[i]
            currentUsage ==
                IF goal.type = "total" THEN getTodayUsage(NoType, Undefined)
                ELSE IF goal.type = "app" THEN getTodayUsage("app", goal.target)
                ELSE IF goal.type = "category"
                     THEN getTodayUsage("category", goal.target)
                ELSE 0
        IN currentUsage >= goal.limit

\* setActiveTab("stats"): the TimeTracker is unmounted, UsageStats and
\* UsageChart are mounted and the effect of UsageChart is scheduled
OpenStats ==
    /\ Settled /\ ~statsTab
    /\ statsTab' = TRUE
    /\ tracker' = TrackerDefault
    /\ chartType' = "bar"
    /\ chartData' = <<>>
    /\ maxValue' = 60 * Unit
    /\ effects' = <<"chart">>
    /\ UNCHANGED <<entries, goals, lsEntries, lsGoals, pending, nextId, now, boot>>
    /\ UNCHANGED uiVars

\* setActiveTab("track"): UsageChart is unmounted, the TimeTracker is mounted
OpenTrack ==
    /\ Settled /\ statsTab
    /\ statsTab' = FALSE
    /\ tracker' = TrackerDefault
    /\ chartType' = "bar"
    /\ chartData' = <<>>
    /\ maxValue' = 60 * Unit
    /\ UNCHANGED storeVars
    /\ UNCHANGED uiVars

\* the chart's tabs: setChartType; the render that follows shows the tab of
\* the new type with the chartData and maxValue the last effect set, and the
\* effect, which depends on chartType, is scheduled
SetChartType(t) ==
    /\ Settled /\ statsTab
    /\ t # chartType
    /\ chartType' = t
    /\ effects' = <<"chart">>
    /\ UNCHANGED <<statsTab, tracker, chartData, maxValue>>
    /\ UNCHANGED <<entries, goals, lsEntries, lsGoals, pending, nextId, now, boot>>
    /\ UNCHANGED uiVars

\* useEffect(() => generateChartData(), [entries, chartType])
ChartEffect ==
    /\ effects # <<>> /\ Head(effects) = "chart"
    /\ IF chartType = "bar"
       THEN LET data == BarData(LocalDate(now))
            IN /\ maxValue' = MaxOf({data[i].value : i \in 1..7} \cup {60 * Unit})
               /\ chartData' = data
       ELSE LET data == PieData(LocalDate(now))
            IN /\ chartData' = data
               /\ maxValue' = ReduceValue(data, 0)
    /\ effects' = Tail(effects)
    /\ UNCHANGED <<statsTab, tracker, chartType>>
    /\ UNCHANGED <<entries, goals, lsEntries, lsGoals, pending, nextId, now, boot>>
    /\ UNCHANGED uiVars

Next ==
    \/ LoadEffect
    \/ SaveEntriesEffect
    \/ SaveGoalsEffect
    \/ Rerender
    \/ Reload
    \/ Tick
    \/ CallAddEntry
    \/ CallUpdateEntry
    \/ CallDeleteEntry
    \/ CallAddGoal
    \/ CallUpdateGoal
    \/ CallDeleteGoal

Spec == Init /\ [][Next]_vars

\* the store with only its entry operations called
NextEntries ==
    \/ LoadEffect
    \/ SaveEntriesEffect
    \/ SaveGoalsEffect
    \/ Rerender
    \/ Reload
    \/ Tick
    \/ CallAddEntry
    \/ CallUpdateEntry
    \/ CallDeleteEntry

SpecEntries == Init /\ [][NextEntries]_vars

\* the application used through the goal screen
NextUI ==
    \/ LoadEffect
    \/ SaveEntriesEffect
    \/ SaveGoalsEffect
    \/ Rerender
    \/ Reload
    \/ OpenAddGoal
    \/ CloseDialog
    \/ \E t \in GoalTypes : ChangeType(t)
    \/ \E s \in TargetInputs : ChangeTarget(s)
    \/ \E n \in LimitInputs : ChangeLimit(n)
    \/ Submit
    \/ \E id \in Issued : handleEdit(id)
    \/ \E id \in Issued : handleDeleteClick(id)
    \/ CancelDelete
    \/ confirmDelete
    \/ \E g \in toasts : Undo(g)
    \/ \E g \in toasts : ToastExpires(g)

SpecUI == Init /\ [][NextUI]_vars

\* the application used through the "track" and "stats" tabs
NextTrack ==
    \/ LoadEffect
    \/ SaveEntriesEffect
    \/ SaveGoalsEffect
    \/ Rerender
    \/ Reload
    \/ Tick
    \/ \E a \in AppInputs : ChangeApp(a)
    \/ \E h \in HoursInputs : ChangeHours(h)
    \/ \E m \in MinutesInputs : ChangeMinutes(m)
    \/ SubmitEntry
    \/ OpenStats
    \/ OpenTrack
    \/ \E t \in {"bar", "pie"} : SetChartType(t)
    \/ ChartEffect

SpecTrack == Init /\ [][NextTrack]_vars

(***************************************************************************)
(* Dashboard: the recent-activity list, over a store that an earlier       *)
(* session left in localStorage.                                           *)
(***************************************************************************)
\* the comparator with the entries of one date oldest first
CompareOldestFirst(a, b) ==
    LET dateComparison == entries[b].date - entries[a].date
    IN IF dateComparison = 0 THEN a - b ELSE dateComparison

\* the comparator of the sort, on the positions a and b of two entries: a
\* negative number puts a first; the dates compare as their day numbers
Compare(a, b) ==
    LET dateComparison == entries[b].date - entries[a].date
    IN IF dateComparison = 0 THEN b - a ELSE dateComparison

RECURSIVE InsertBy(_, _)
InsertBy(sorted, a) ==
    IF sorted = <<>> THEN <<a>>
    ELSE IF Compare(a, Head(sorted)) < 0 THEN <<a>> \o sorted
    ELSE <<Head(sorted)>> \o InsertBy(Tail(sorted), a)

\* [...entries].sort(comparator), as the positions of the entries
RECURSIVE SortPositions(_, _)
SortPositions(n, sorted) ==
    IF n = 0 THEN sorted ELSE SortPositions(n - 1, InsertBy(sorted, n))

\* .slice(0, 5)
recentPositions ==
    LET sorted == SortPositions(Len(entries), <<>>)
    IN SubSeq(sorted, 1, IF Len(sorted) < 5 THEN Len(sorted) ELSE 5)

recentEntries == [k \in 1..Len(recentPositions) |-> entries[recentPositions[k]]]

\* the entries an earlier session saved: the i-th has the id i
StoredEntries ==
    LET input == CHOOSE e \in EntryInputs : e.notes # Undefined
    IN UNION {{[i \in 1..n |-> Spread(input, [id |-> i, date |-> dates[i]])] :
                 dates \in [1..n -> Dates]} : n \in 0..MaxStored}

\* the first render of a session that finds saved entries
InitRecent ==
    /\ \E stored \in StoredEntries :
          /\ lsEntries = <<Stringify(stored)>>
          /\ nextId = Len(stored) + 1
          /\ boot = [active |-> TRUE, entries |-> stored, goals |-> <<>>]
    /\ lsGoals = <<Stringify(<<>>)>>
    /\ entries = <<>>
    /\ goals = <<>>
    /\ effects = MountEffects
    /\ pending = NoPending
    /\ now = 0
    /\ UiInit
    /\ TrackInit

NextRecent ==
    \/ LoadEffect
    \/ SaveEntriesEffect
    \/ SaveGoalsEffect
    \/ Rerender
    \/ Reload
    \/ CallAddEntry
    \/ CallDeleteEntry

SpecRecent == InitRecent /\ [][NextRecent]_vars

(***************************************************************************)
(* Properties.                                                             *)
(***************************************************************************)
\* two goals that the validation is meant to keep apart
SameSlot(g, h) ==
    g.type = h.type /\ (g.type = "total" \/ g.target = h.target)

\* the sum of the durations of the entries at the positions in S
RECURSIVE SumDuration(_)
SumDuration(S) ==
    IF S = {} THEN 0
    ELSE LET i == CHOOSE i \in S : TRUE
         IN entries[i].duration + SumDuration(S \ {i})

\* str is the JSON text of the array arr of objects with the given keys
SerializedAs(str, arr, keys) ==
    /\ Len(str) = Len(arr)
    /\ \A i \in 1..Len(arr) :
          /\ DOMAIN str[i] \subseteq keys
          /\ \A k \in keys :
                IF k \in OptionalKeys /\ arr[i][k] = Undefined
                THEN k \notin DOMAIN str[i]
                ELSE k \in DOMAIN str[i] /\ str[i][k] = arr[i][k]

\* C1: through the goal screen (create, edit, delete, Undo) the goals hold at
\* most one goal per (type, target) and at most one goal of type "total".
C1_OneGoalPerSlot ==
    \A i, j \in 1..Len(goals) : i # j => ~SameSlot(goals[i], goals[j])

\* C4: getTodayUsage() is the sum of the durations of exactly the entries
\* dated today, whatever addEntry, updateEntry and deleteEntry did before, and
\* 0 when there is none.
C4_TodayUsageIsSum ==
    getTodayUsage(NoType, Undefined)
      = SumDuration({i \in 1..Len(entries) : entries[i].date = UtcDate(now)})

\* after an add, an update and a delete: an updated entry of today next to an
\* entry of another day
C4_Witness ==
    /\ goals = <<>> /\ nextId = 4 /\ Len(entries) = 2
    /\ \E i, j \in 1..Len(entries) :
          /\ entries[i].date = UtcDate(now) /\ entries[i].duration = 199
          /\ entries[j].date # UtcDate(now) /\ entries[j].duration > 0

\* C5: getTodayUsage("app", t) sums the entries of today whose app is t, and
\* getTodayUsage("category", c) those whose category is c; nothing else counts.
C5_FilteredUsageIsSum ==
    /\ \A t \in Apps :
          getTodayUsage("app", t)
            = SumDuration({i \in 1..Len(entries) :
                             entries[i].date = UtcDate(now) /\ entries[i].app = t})
    /\ \A c \in Categories :
          getTodayUsage("category", c)
            = SumDuration({i \in 1..Len(entries) :
                             entries[i].date = UtcDate(now) /\ entries[i].category = c})

\* two entries of today with different apps and categories, and an entry of
\* another day with the app and the category of one of them
C5_Witness ==
    \E i, j, k \in 1..Len(entries) :
        /\ entries[i].date = UtcDate(now) /\ entries[j].date = UtcDate(now)
        /\ entries[i].app # entries[j].app
        /\ entries[i].category # entries[j].category
        /\ entries[k].date # UtcDate(now)
        /\ entries[k].category = entries[i].category
        /\ getTodayUsage("category", entries[i].category) = entries[i].duration

\* C6: getUsageByDate(d) is the entries dated d, each of them, no other, in
\* the order of the store, and the empty list when there is none.
C6_UsageByDateExact ==
    \A d \in Dates \cup {2} :
        LET r == getUsageByDate(d)
            idx == {i \in 1..Len(entries) : entries[i].date = d}
        IN /\ Len(r) = Cardinality(idx)
           /\ \A k \in 1..Len(r) :
                 r[k] = entries[CHOOSE i \in idx :
                                    Cardinality({j \in idx : j < i}) = k - 1]

\* two entries of one date around an entry of another date
C6_Witness ==
    /\ Len(entries) = 3
    /\ entries[1].date = entries[3].date
    /\ entries[2].date # entries[1].date
    /\ Len(getUsageByDate(entries[1].date)) = 2

\* C7: no two entries share an id and no two goals share an id.
C7_IdsUnique ==
    /\ \A i, j \in 1..Len(entries) : i # j => entries[i].id # entries[j].id
    /\ \A i, j \in 1..Len(goals) : i # j => goals[i].id # goals[j].id

\* C8: no step changes the id of an entry or of a goal that stays in its
\* collection: an update leaves every item under the id it had.
C8_IdImmutable ==
    [][/\ Len(entries') = Len(entries)
          => \A i \in 1..Len(entries) : entries'[i].id = entries[i].id
       /\ Len(goals') = Len(goals)
          => \A i \in 1..Len(goals) : goals'[i].id = goals[i].id]_vars

\* C9: once the save effects have run, screenTimeEntries holds the whole
\* current entries array serialized and screenTimeGoals the whole goals array.
C9_Persisted ==
    Settled =>
        /\ lsEntries # <<>> /\ SerializedAs(lsEntries[1], entries, EntryKeys)
        /\ lsGoals # <<>> /\ SerializedAs(lsGoals[1], goals, GoalKeys)

\* settled after adds, an update of an entry and of a goal, and a delete
C9_Witness ==
    /\ Settled /\ nextId = 4
    /\ Len(entries) = 1 /\ Len(goals) = 1
    /\ entries[1].duration = 199 /\ entries[1].notes = Undefined
    /\ goals[1].limit = 200

\* C10: when the page is reloaded and startup has settled, the entries and
\* goals in memory are those in memory before the reload, in the same order.
C10_ReloadRoundTrip ==
    (Settled /\ boot.active) => (entries = boot.entries /\ goals = boot.goals)

\* settled after a reload of a store that held entries with and without notes
\* and a goal
C10_Witness ==
    /\ Settled /\ boot.active
    /\ boot.goals # <<>>
    /\ \E i, j \in 1..Len(boot.entries) :
          boot.entries[i].notes = Undefined /\ boot.entries[j].notes = ""

\* C2: submitting the form in create mode with type "total" while a goal of
\* type "total" exists changes no goal: the goals after it are the goals before.
C2_SecondTotalRejected ==
    [][(/\ Submit
        /\ isEditing = NoId
        /\ form.type = "total"
        /\ \E i \in 1..Len(goals) : goals[i].type = "total")
       => goals' = goals]_vars

\* a create-mode submission of type "total" was turned down
C2_Witness ==
    /\ isDialogOpen /\ isEditing = NoId
    /\ form.type = "total"
    /\ formError = "total goal exists"
    /\ \E i \in 1..Len(goals) : goals[i].type = "total" /\ goals[i].target # form.target

\* C3: hasConflict reports a conflict exactly when a goal other than the one
\* being edited has the same type and, unless the type is "total", the same
\* target; the limit plays no part, and the goal found is never the edited one.
C3_HasConflictExact ==
    /\ hasConflict(form.type, form.target, 1, isEditing)
         = hasConflict(form.type, form.target, 120, isEditing)
    /\ \A type \in GoalTypes : \A target \in TargetInputs \cup {""} :
       \A excludeId \in {NoId, isEditing} :
           LET found == hasConflict(type, target, form.limit, excludeId)
           IN /\ (found # <<>>)
                   <=> \E i \in 1..Len(goals) :
                          /\ goals[i].id # excludeId
                          /\ goals[i].type = type
                          /\ (type = "total" \/ goals[i].target = target)
              /\ found # <<>> => found[1].id # excludeId

\* an edit was turned down because of another goal while the edited goal
\* itself has the type and target of the form
C3_Witness ==
    /\ isDialogOpen /\ formError # NoError
    /\ \E i, j \in 1..Len(goals) :
          /\ goals[i].id = isEditing /\ goals[j].id # isEditing
          /\ SameSlot(goals[j], [type |-> form.type, target |-> form.target])

\* an item without its id
Strip(item) == [k \in DOMAIN item \ {"id"} |-> item[k]]

\* how many items of arr have the fields r
CountFields(arr, r) == Cardinality({i \in 1..Len(arr) : Strip(arr[i]) = r})

\* arr and brr hold the same items when the ids and the order are ignored
SameUnordered(arr, brr) ==
    /\ Len(arr) = Len(brr)
    /\ \A i \in 1..Len(arr) :
          CountFields(arr, Strip(arr[i])) = CountFields(brr, Strip(arr[i]))

\* C11: deleteEntry of an entry followed by addEntry of its fields gives a
\* store with the same entries when ids and order are ignored, the entry added
\* has another id than the entry deleted, and getTodayUsage and getUsageByDate
\* (as a set of entries without id) give what they gave before the delete.
C11_DeleteThenReAdd ==
    \A i \in 1..Len(entries) :
        LET deleted == entries[i]
            afterDelete == FilterOutId(entries, deleted.id)
            afterAdd == Append(afterDelete,
                               Spread(Strip(deleted), [id |-> randomUUID]))
        IN /\ SameUnordered(entries, afterAdd)
           /\ afterAdd[Len(afterAdd)].id # deleted.id
           /\ FilterReduce(afterAdd, UtcDate(now), NoType, Undefined, 0)
                = getTodayUsage(NoType, Undefined)
           /\ \A d \in Dates :
                 {Strip(FilterDate(afterAdd, d)[k]) :
                      k \in 1..Len(FilterDate(afterAdd, d))}
                   = {Strip(getUsageByDate(d)[k]) : k \in 1..Len(getUsageByDate(d))}

\* C12: confirming the delete dialog takes the goal out and puts a copy of it
\* into the toast; Undo then appends a goal with the type, target and limit of
\* that copy under an id no goal has and the deleted goal did not have, and
\* leaves every other goal as it was.
C12_UndoRestores ==
    [][/\ (confirmDelete /\ goals' # goals)
            => /\ \E i \in 1..Len(goals) :
                     /\ goals[i].id = goalToDelete
                     /\ toasts' = toasts \cup {goals[i]}
               /\ \A i \in 1..Len(goals') : goals'[i].id # goalToDelete
       /\ \A g \in toasts :
             Undo(g)
               => /\ Len(goals') = Len(goals) + 1
                  /\ \A i \in 1..Len(goals) : goals'[i] = goals[i]
                  /\ Strip(goals'[Len(goals')]) = Strip(g)
                  /\ goals'[Len(goals')].id # g.id
                  /\ \A i \in 1..Len(goals) : goals[i].id # goals'[Len(goals')].id]_vars

\* Undo has brought a deleted goal back: only Undo adds a goal of type "total"
\* next to another one, and the goal brought back has a later id
C12_Witness ==
    /\ toasts = {} /\ Len(goals) = 2
    /\ goals[1].type = "total" /\ Strip(goals[2]) = Strip(goals[1])
    /\ goals[2].id > goals[1].id /\ goals[1].id > 1

\* the ids of the items of arr
Ids(arr) == {arr[i].id : i \in 1..Len(arr)}

\* brr is arr without exactly one item, the one with the given id, the others
\* unchanged and in their order
RemovedExactly(arr, brr, id) ==
    /\ id \notin Ids(brr)
    /\ Len(brr) = Len(arr) - 1
    /\ \E p \in 1..Len(arr) :
          /\ arr[p].id = id
          /\ \A i \in 1..Len(brr) : brr[i] = IF i < p THEN arr[i] ELSE arr[i + 1]

\* C13: deleteEntry(id) and deleteGoal(id) of an id in the collection remove
\* exactly the item with that id, keep every other item and their order and
\* leave the other collection alone; an id that was handed out and is in
\* neither collection is in neither collection after any operation, and a
\* reload brings back only the ids that were there before it.
C13_DeleteExact ==
    [][/\ \A id \in Ids(entries) :
             (Settled /\ deleteEntry(id))
               => RemovedExactly(entries, entries', id) /\ goals' = goals
       /\ \A id \in Ids(goals) :
             (Settled /\ deleteGoal(id))
               => RemovedExactly(goals, goals', id) /\ entries' = entries
       /\ Settled
            => \A id \in Issued \ (Ids(entries) \cup Ids(goals)) :
                  id \notin Ids(entries') \cup Ids(goals')
       /\ Rerender
            => /\ Ids(entries') \subseteq Ids(boot.entries)
               /\ Ids(goals') \subseteq Ids(boot.goals)]_vars

\* C14: every entry the TimeTracker form creates has a duration that is a
\* whole number of minutes and not negative.
C14_DurationNatural ==
    \A i \in 1..Len(entries) :
        entries[i].duration >= 0 /\ entries[i].duration % Unit = 0

\* C15: whatever is created, edited, deleted and restored through the goal
\* screen, every goal in the collection has a limit of at least 1.
C15_LimitAtLeastOne ==
    \A i \in 1..Len(goals) : goals[i].limit >= 1

\* the limit 0 stands in the form of a goal being edited, next to another
\* goal that went through the form, and no goal has taken it
C15_Witness ==
    /\ isDialogOpen /\ form.limit = 0
    /\ Len(goals) = 2
    /\ \E i \in 1..Len(goals) : goals[i].id = isEditing /\ goals[i].limit = 120

\* C16: every goal of type "total" stored through the goal form has no target:
\* its target is undefined or the empty string, whatever was selected and typed
\* in the form before the type was set to "total".
C16_TotalHasNoTarget ==
    \A i \in 1..Len(goals) :
        goals[i].type = "total" => goals[i].target \in {"", Undefined}

\* C17: closing the goal dialog changes no goal, and the "Add Goal" button
\* then opens the dialog in create mode with the default values, so that the
\* submission that follows adds a goal and updates none.
C17_CloseDiscards ==
    [][/\ CloseDialog => goals' = goals
       /\ OpenAddGoal => (isEditing' = NoId /\ form' = DefaultForm)]_vars

\* C18: a submission turned down for a conflict sets formError and changes
\* nothing else: the dialog stays open, isEditing, the form and the goals are
\* as before; a change of a form field, closing the dialog and a submission
\* that goes through each leave formError null; formError is set only while
\* the dialog is open.
C18_ConflictInline ==
    [][/\ (Submit /\ hasConflict(form.type, form.target, form.limit, isEditing) # <<>>)
            => /\ formError' # NoError
               /\ isDialogOpen' /\ isEditing' = isEditing /\ form' = form
               /\ goals' = goals /\ entries' = entries
       /\ (Submit /\ hasConflict(form.type, form.target, form.limit, isEditing) = <<>>)
            => formError' = NoError /\ ~isDialogOpen'
       /\ ((\E t \in GoalTypes : ChangeType(t))
             \/ (\E x \in TargetInputs : ChangeTarget(x))
             \/ (\E n \in LimitInputs : ChangeLimit(n))
             \/ CloseDialog)
            => formError' = NoError /\ goals' = goals
       /\ formError' # NoError => isDialogOpen']_vars

\* the edit of a goal into a category goal was turned down: the message is
\* shown and the dialog is still editing that goal
C18_Witness ==
    /\ isDialogOpen /\ formError = "category goal exists"
    /\ isEditing # NoId
    /\ \E i \in 1..Len(goals) : goals[i].id = isEditing /\ goals[i].type = "total"

\* C19: for every date and every view the breakdown has one row per key that
\* occurs among the entries of the date, the duration of a row is the sum of
\* the durations of the entries of the date with its key, the rows are in
\* non-increasing order of duration, and the durations of the rows add up to
\* the total minutes of the date; the pie data of the week is such a breakdown
\* by category of the entries of the week.
C19_BreakdownExact ==
    /\ LET pie == PieData(LocalDate(now))
           idx == {i \in 1..Len(entries) :
                     \E j \in 1..7 : entries[i].date = WeekDates(LocalDate(now))[j]}
       IN /\ Len(pie) = Cardinality({entries[i].category : i \in idx})
          /\ \A k \in 1..Len(pie) :
                pie[k].value
                  = SumDuration({i \in idx : entries[i].category = pie[k].label})
          /\ \A k \in 1..(Len(pie) - 1) : pie[k].value >= pie[k + 1].value
          /\ ReduceValue(pie, 0) = SumDuration(idx)
    /\ \A d \in Dates : \A view \in Views :
           LET rows == getGroupedData(d, view)
               idx == {i \in 1..Len(entries) : entries[i].date = d}
               keys == {KeyOf(entries[i], view) : i \in idx}
           IN /\ Len(rows) = Cardinality(keys)
              /\ {rows[k].name : k \in 1..Len(rows)} = keys
              /\ \A k \in 1..Len(rows) :
                    rows[k].duration
                      = SumDuration({i \in idx : KeyOf(entries[i], view) = rows[k].name})
              /\ \A k \in 1..(Len(rows) - 1) : rows[k].duration >= rows[k + 1].duration
              /\ ReduceDuration(rows, 0) = totalMinutes(d)
              /\ totalMinutes(d) = SumDuration(idx)

\* three entries of one date: the two later ones share a category, and their
\* row comes first although the category of the first entry was met first
C19_Witness ==
    /\ Len(entries) = 3
    /\ \E d \in Dates :
          LET rows == getGroupedData(d, "category")
          IN /\ Len(rows) = 2
             /\ rows[1].name = entries[2].category
             /\ rows[1].name = entries[3].category
             /\ rows[2].name = entries[1].category
             /\ rows[1].duration = entries[2].duration + entries[3].duration
             /\ rows[1].duration > rows[2].duration

\* p is 100 * value / total rounded to the nearest whole number
NearestPercent(p, value, total) ==
    /\ p \in 0..100
    /\ 2 * (100 * value - p * total) <= total
    /\ 2 * (p * total - 100 * value) <= total

\* the divisors of the divisions a render of the "stats" tab carries out:
\* UsageStats divides by totalMinutes where totalMinutes > 0; UsageChart
\* builds the children of both of its tabs in every render, so with a
\* chartData that is not empty it divides by maxValue inside getPercentage
\* where maxValue > 0 (more than one item) and divides item.value by maxValue
\* for the height of the bar of every item
StatsDivisors ==
    {totalMinutes(d) : d \in {e \in Dates : totalMinutes(e) > 0}}
      \cup (IF Len(chartData) > 1 /\ maxValue > 0 THEN {maxValue} ELSE {})
      \cup (IF chartData # <<>> THEN {maxValue} ELSE {})

\* C20: every percentage shown for a group is a whole number from 0 to 100,
\* the rounded value of 100 * group / total, and is computed only for a total
\* above 0; no percentage, bar height or goal progress is computed by a
\* division by zero.
C20_PercentagesSafe ==
    /\ \A d \in Dates : \A view \in Views :
          totalMinutes(d) > 0
            => \A k \in 1..Len(getGroupedData(d, view)) :
                  NearestPercent(
                      RoundPercent(getGroupedData(d, view)[k].duration, totalMinutes(d)),
                      getGroupedData(d, view)[k].duration, totalMinutes(d))
    /\ (chartType = "pie" /\ maxValue > 0)
          => \A k \in 1..Len(chartData) :
                NearestPercent(getPercentage(chartData[k].value),
                               chartData[k].value, maxValue)
    /\ statsTab => 0 \notin StatsDivisors
    /\ \A i \in 1..Len(goals) : goals[i].limit # 0

\* C21: the bar data the chart effect generates has 7 buckets, for the Monday
\* of the current week and the six days after it; the value of a bucket is the
\* sum of the durations of the entries dated that day, so an entry dated
\* outside the week is in no bucket; the scale maximum is the largest bucket
\* value, and 60 minutes when no bucket has more.
C21_WeekBuckets ==
    [][(ChartEffect /\ chartType = "bar")
         => LET today == LocalDate(now)
                monday == CHOOSE m \in (today - 6)..today : m % 7 = 1
                values == {chartData'[i].value : i \in 1..Len(chartData')}
            IN /\ Len(chartData') = 7
               /\ \A i \in 1..7 :
                     /\ chartData'[i].label = WeekdayLabels[i]
                     /\ chartData'[i].value
                          = SumDuration({j \in 1..Len(entries) :
                                            entries[j].date = monday + (i - 1)})
               /\ maxValue' >= 60 * Unit
               /\ \A v \in values : maxValue' >= v
               /\ maxValue' \in values \cup {60 * Unit}]_vars

\* the bar chart of a week that has an entry of more than an hour, while the
\* store also holds an entry of the week before
C21_Witness ==
    /\ statsTab /\ Settled /\ chartType = "bar"
    /\ Len(chartData) = 7
    /\ maxValue > 60 * Unit
    /\ \E i \in 1..7 : chartData[i].value = maxValue
    /\ \E j \in 1..Len(entries) :
          \A i \in 1..7 : entries[j].date # WeekDates(LocalDate(now))[i]

\* C22: every goal of type "app" or "category" that a submission of the goal
\* form stores (added or rewritten) has a target, and the target is not the
\* empty string.
C22_TargetRequired ==
    [][Submit
         => \A i \in 1..Len(goals') :
               (/\ goals'[i].type \in {"app", "category"}
                /\ (i > Len(goals) \/ goals'[i] # goals[i]))
                 => /\ "target" \in DOMAIN goals'[i]
                    /\ goals'[i].target \notin {"", Undefined}]_vars

\* C23: from a reload on, through the load effect, the save effects and the
\* re-render of the mount sequence, both localStorage keys hold the JSON text
\* of the collections that were persisted before the reload.
C23_StartupKeepsStorage ==
    boot.active
      => /\ lsEntries # <<>>
         /\ SerializedAs(lsEntries[1], boot.entries, EntryKeys)
         /\ lsGoals # <<>>
         /\ SerializedAs(lsGoals[1], boot.goals, GoalKeys)

\* C24: immediately after the tracker form logged an entry of duration d,
\* getTodayUsage() has grown by d, the total of the usage breakdown for its
\* default selected date equals getTodayUsage(), and the new entry is dated
\* with a day of the weekly chart's current week.
C24_SameToday ==
    [][(SubmitEntry /\ Len(entries') = Len(entries) + 1)
         => LET d == entries'[Len(entries')].duration
            IN /\ getTodayUsage(NoType, Undefined)'
                    = getTodayUsage(NoType, Undefined) + d
               /\ totalMinutes(LocalDate(now))' = getTodayUsage(NoType, Undefined)'
               /\ entries'[Len(entries')].date = LocalDate(now)]_vars

\* the entries of today that count for a goal
CountedFor(goal) ==
    {j \in 1..Len(entries) :
        /\ entries[j].date = UtcDate(now)
        /\ goal.type = "app" => entries[j].app = goal.target
        /\ goal.type = "category" => entries[j].category = goal.target}

\* C25: the displayed progress of every goal is an integer in 0..100 and is
\* 100 exactly when today's usage for the goal is at least its limit; the
\* dashboard flags a goal as reached exactly when some goal has such a usage.
C25_ProgressReached ==
    /\ \A i \in 1..Len(goals) :
          LET progress == getProgressPercentage(goals[i])
          IN /\ progress \in 0..100
             /\ (progress = 100)
                  <=> (SumDuration(CountedFor(goals[i])) >= goals[i].limit)
    /\ checkGoals
         <=> \E i \in 1..Len(goals) : getProgressPercentage(goals[i]) = 100

\* the sum of getTodayUsage(type, t) over the targets t of the set S
RECURSIVE SumUsage(_, _)
SumUsage(type, S) ==
    IF S = {} THEN 0
    ELSE LET t == CHOOSE t \in S : TRUE
         IN getTodayUsage(type, t) + SumUsage(type, S \ {t})

\* C26: in every state of the store getTodayUsage(type, target) is at most
\* getTodayUsage(); the usages of all categories add up to getTodayUsage(), and
\* so do the usages of the distinct app names of today's entries.
C26_UsagePartition ==
    LET total == getTodayUsage(NoType, Undefined)
        appsToday == {entries[i].app : i \in {j \in 1..Len(entries) :
                                                entries[j].date = UtcDate(now)}}
    IN /\ \A target \in Apps \cup {""} : getTodayUsage("app", target) <= total
       /\ \A target \in Categories : getTodayUsage("category", target) <= total
       /\ SumUsage("category", Categories) = total
       /\ SumUsage("app", appsToday) = total

\* two entries of today with different apps and categories next to an entry
\* of another day
C26_Witness ==
    /\ Len(entries) = 3
    /\ \E i, j, k \in 1..Len(entries) :
          /\ entries[i].date = UtcDate(now) /\ entries[j].date = UtcDate(now)
          /\ entries[i].app # entries[j].app
          /\ entries[i].category # entries[j].category
          /\ entries[k].date # UtcDate(now)
    /\ getTodayUsage("app", "x") > 0
    /\ getTodayUsage("app", "x") < getTodayUsage(NoType, Undefined)

\* arr2 is arr with one item appended
AppendsOne(arr, arr2) ==
    Len(arr2) = Len(arr) + 1 /\ SubSeq(arr2, 1, Len(arr)) = arr

\* arr2 has the items of arr, in place, except those whose id is id
ChangesOnly(arr, arr2, id) ==
    /\ Len(arr2) = Len(arr)
    /\ \A i \in 1..Len(arr) : arr[i].id # id => arr2[i] = arr[i]

\* C28: addEntry and addGoal append one item and leave the items before it as
\* they were, in order; updateEntry and updateGoal keep length and order and
\* change no item whose id is not the given one; an update or a delete with
\* an id that no item has leaves the collection as it was; the operations on
\* entries leave the goals alone and those on goals the entries.  A step from
\* a settled state that schedules one effect is a call of a store operation.
C28_Frame ==
    [][(Settled /\ Len(effects') = 1)
         => /\ (nextId' # nextId /\ \E e \in EntryInputs : addEntry(e))
                 => (AppendsOne(entries, entries') /\ goals' = goals)
            /\ (nextId' # nextId /\ \E g \in GoalInputs : addGoal(g))
                 => (AppendsOne(goals, goals') /\ entries' = entries)
            /\ (nextId' = nextId /\ effects' = <<"saveEntries">>)
                 => \A id \in Issued :
                       /\ \A f \in EntryUpdates :
                             updateEntry(id, f)
                               => /\ ChangesOnly(entries, entries', id)
                                  /\ goals' = goals
                       /\ deleteEntry(id)
                            => /\ id \notin Ids(entries) => entries' = entries
                               /\ goals' = goals
            /\ (nextId' = nextId /\ effects' = <<"saveGoals">>)
                 => \A id \in Issued :
                       /\ \A f \in GoalUpdates :
                             updateGoal(id, f)
                               => /\ ChangesOnly(goals, goals', id)
                                  /\ entries' = entries
                       /\ deleteGoal(id)
                            => /\ id \notin Ids(goals) => goals' = goals
                               /\ entries' = entries]_vars

\* the first of two entries has just been updated (the update is not saved
\* yet) and the second is as it was saved
C28_Witness ==
    /\ Len(entries) = 2 /\ goals # <<>>
    /\ effects = <<"saveEntries">>
    /\ lsEntries # <<>> /\ Len(lsEntries[1]) = 2
    /\ entries[1].duration = 199 /\ lsEntries[1][1].duration # 199
    /\ entries[2].duration # 199 /\ entries[2].id # entries[1].id

\* the entry at position i is newer than the one at j: a later date, or the
\* same date and added later
Newer(i, j) ==
    \/ entries[i].date > entries[j].date
    \/ entries[i].date = entries[j].date /\ i > j

\* C27: the recent-activity list holds min(5, number of entries) entries of
\* the store, no entry twice, each one newer than the ones after it (later
\* date first, and of one date the later added first), and no entry left out
\* is newer than an entry of the list.
C27_RecentFive ==
    LET n == Len(entries)
        pos == recentPositions
        listed == {pos[k] : k \in 1..Len(pos)}
    IN /\ Len(recentEntries) = IF n < 5 THEN n ELSE 5
       /\ Len(pos) = Len(recentEntries)
       /\ \A k \in 1..Len(pos) :
             pos[k] \in 1..n /\ recentEntries[k] = entries[pos[k]]
       /\ \A k, l \in 1..Len(pos) : k < l => Newer(pos[k], pos[l])
       /\ \A i \in (1..n) \ listed : \A j \in listed : ~Newer(i, j)

\* six entries of two dates, the oldest one of the later date: it is listed
\* ahead of entries added after it, and an entry of the earlier date is left
\* out
C27_Witness ==
    /\ Settled /\ Len(entries) = 6
    /\ entries[1].date = 1 /\ entries[6].date = 0 /\ entries[2].date = 0
    /\ recentEntries[1] = entries[1]
    /\ Len(recentEntries) = 5
    /\ \A k \in 1..5 : recentEntries[k] # entries[2]

====
